---- MODULE Spec2Model ----
(***************************************************************************)
(* Model of rust_lib/src/lib.rs: fibonacci(n: u32) -> Option<u128> and the *)
(* exposed implementation(n) -> PyResult<u128>.                            *)
(*                                                                         *)
(* A u128 is a little-endian sequence of NumLimbs limbs of LimbBits bits,  *)
(* so that the carry out of the top limb is exactly the overflow that      *)
(* u128::checked_add reports.  The mathematical Fibonacci numbers are kept *)
(* apart from the machine arithmetic, as unbounded decimal numerals.       *)
(***************************************************************************)
EXTENDS Integers, Sequences, FiniteSets, TLC

VARIABLES frames, pk, pout

vars == <<frames, pk, pout>>

(* ------------------------------ bounds -------------------------------- *)

\* largest index passed to a single invocation
MaxN == 190

\* largest of the small indices used by the concurrent invocations
MaxSmallN == 2

(* --------------------------- u128 arithmetic --------------------------- *)

\* width of the accumulators and of the result
W == 128

LimbBits == 2 * 8

Base == 2 ^ LimbBits

NumLimbs == W \div LimbBits

RECURSIVE LimbsOf(_, _)
\* the k low limbs of a small natural number
LimbsOf(x, k) ==
    IF k = 0 THEN <<>> ELSE <<x % Base>> \o LimbsOf(x \div Base, k - 1)

U128(x) == LimbsOf(x, NumLimbs)

\* u128::MAX
U128Max == [j \in 1..NumLimbs |-> Base - 1]

IsU128(x) ==
    /\ DOMAIN x = 1..NumLimbs
    /\ \A j \in 1..NumLimbs : x[j] \in 0..(Base - 1)

None == [tag |-> "None"]

Some(x) == [tag |-> "Some", v |-> x]

RECURSIVE AddFrom(_, _, _, _)
\* ripple-carry sum of the limbs from position k on; the last element of
\* the result is the carry out of the top limb
AddFrom(x, y, k, c) ==
    IF k > Len(x)
    THEN <<c>>
    ELSE <<(x[k] + y[k] + c) % Base>>
             \o AddFrom(x, y, k + 1, (x[k] + y[k] + c) \div Base)

\* u128::wrapping_add: the carry out of bit 127 is dropped
WrappingAdd(x, y) == Some(SubSeq(AddFrom(x, y, 1, 0), 1, NumLimbs))

\* u128::checked_add: None when the true sum does not fit in 128 bits
CheckedAdd(x, y) ==
    IF AddFrom(x, y, 1, 0)[NumLimbs + 1] # 0
    THEN None
    ELSE Some(SubSeq(AddFrom(x, y, 1, 0), 1, NumLimbs))

(* ------------------- the mathematical Fibonacci numbers ---------------- *)

\* natural numbers of any size: decimal digits, lowest first, no leading
\* zero except for the number zero itself
Dec(ds) == [j \in 1..Len(ds) |-> ds[Len(ds) + 1 - j]]

DigitAt(x, j) == IF j <= Len(x) THEN x[j] ELSE 0

RECURSIVE DecAddFrom(_, _, _, _)
DecAddFrom(x, y, j, c) ==
    IF j > Len(x) /\ j > Len(y)
    THEN IF c = 0 THEN <<>> ELSE <<c>>
    ELSE <<(DigitAt(x, j) + DigitAt(y, j) + c) % 10>>
             \o DecAddFrom(x, y, j + 1, (DigitAt(x, j) + DigitAt(y, j) + c) \div 10)

DecAdd(x, y) == DecAddFrom(x, y, 1, 0)

RECURSIVE DecMulAddFrom(_, _, _, _)
\* x * m + c for small m and c
DecMulAddFrom(x, m, j, c) ==
    IF j > Len(x)
    THEN IF c = 0 THEN <<>> ELSE <<c % 10>> \o DecMulAddFrom(x, m, j, c \div 10)
    ELSE <<(x[j] * m + c) % 10>> \o DecMulAddFrom(x, m, j + 1, (x[j] * m + c) \div 10)

\* x < y
DecLess(x, y) ==
    IF Len(x) # Len(y)
    THEN Len(x) < Len(y)
    ELSE \E j \in 1..Len(x) :
            /\ x[j] < y[j]
            /\ \A m \in (j + 1)..Len(x) : x[m] = y[m]

DecLeq(x, y) == x = y \/ DecLess(x, y)

RECURSIVE HornerFrom(_, _, _)
\* acc * Base^k + the number held by the limbs k, .., 1
HornerFrom(x, k, acc) ==
    IF k = 0 THEN acc
    ELSE HornerFrom(x, k - 1, DecMulAddFrom(acc, Base, 1, x[k]))

\* the natural number a u128 stands for
Value(x) == HornerFrom(x, Len(x), <<0>>)

\* 2^128 - 1
TwoTo128Minus1 ==
    Dec(<<3,4,0,2,8,2,3,6,6,9,2,0,9,3,8,4,6,3,4,6,3,3,7,4,6,0,7,4,3,1,7,6,8,2,1,1,4,5,5>>)

\* F(186) as the specification prints it
F186 ==
    Dec(<<3,3,2,8,2,5,1,1,0,0,8,7,0,6,7,5,6,2,3,2,1,1,9,6,0,2,9,7,8,9,6,3,4,4,5,7,8,4,8>>)

\* F(187) as the specification prints it
F187 ==
    Dec(<<5,3,8,5,2,2,3,4,0,4,3,0,3,0,0,7,9,0,4,9,5,4,1,9,7,8,1,0,9,2,9,8,1,0,3,0,5,3,3>>)

RECURSIVE FibSeqFrom(_, _)
\* F(0), F(1), .. extended by k more terms: F(j) = F(j-1) + F(j-2)
FibSeqFrom(s, k) ==
    IF k = 0 \/ Len(s) < 2 THEN s
    ELSE IF k = 1 THEN Append(s, DecAdd(s[Len(s)], s[Len(s) - 1]))
    ELSE FibSeqFrom(FibSeqFrom(s, k \div 2), k - (k \div 2))

FibTable == FibSeqFrom(<<<<0>>, <<1>>>>, MaxN + 3)

\* F(k), for k <= MaxN + 4 (the table holds F(0) .. F(MaxN + 4))
F(k) == FibTable[k + 1]

\* F(k) fits in W bits
Fits(k) == DecLeq(F(k), TwoTo128Minus1)

(* ------------------------- the frame of a call ------------------------- *)

Pending == [tag |-> "Pending"]

\* no call in progress
IdleFrame ==
    [pc |-> "idle", n |-> 0, i |-> 0, a |-> U128(0), b |-> U128(0),
     adds |-> 0, ret |-> Pending, pyret |-> Pending]

\* let mut a: u128 = 1; let mut b: u128 = 1;
FibEntryOne(m) ==
    [pc |-> "loop", n |-> m, i |-> 0, a |-> U128(1), b |-> U128(1),
     adds |-> 0, ret |-> Pending, pyret |-> Pending]

\* let mut a: u128 = 0; let mut b: u128 = 1;
FibEntry(m) ==
    [pc |-> "loop", n |-> m, i |-> 0, a |-> U128(0), b |-> U128(1),
     adds |-> 0, ret |-> Pending, pyret |-> Pending]

\* the overflow is reported only when the last addition overflows; earlier
\* overflows wrap
LoopBodyLastOnly(f) ==
    IF CheckedAdd(f.a, f.b) = None /\ f.i + 1 = f.n
    THEN [f EXCEPT !.pc = "ret", !.ret = None, !.adds = @ + 1]
    ELSE [f EXCEPT !.a = f.b, !.b = WrappingAdd(f.a, f.b).v,
                   !.i = @ + 1, !.adds = @ + 1]

\* (a, b) = (a.checked_add(b)?, b);
LoopBodySwapped(f) ==
    IF CheckedAdd(f.a, f.b) = None
    THEN [f EXCEPT !.pc = "ret", !.ret = None, !.adds = @ + 1]
    ELSE [f EXCEPT !.a = CheckedAdd(f.a, f.b).v, !.b = f.b,
                   !.i = @ + 1, !.adds = @ + 1]

\* (a, b) = (b, a.wrapping_add(b));
LoopBodyWrapping(f) ==
    [f EXCEPT !.a = f.b, !.b = WrappingAdd(f.a, f.b).v,
              !.i = @ + 1, !.adds = @ + 1]

\* one iteration of `for _ in 0..n`:  (a, b) = (b, a.checked_add(b)?);
\* `?` returns None from fibonacci at once when the addition overflows
LoopBody(f) ==
    IF CheckedAdd(f.a, f.b) = None
    THEN [f EXCEPT !.pc = "ret", !.ret = None, !.adds = @ + 1]
    ELSE [f EXCEPT !.a = f.b, !.b = CheckedAdd(f.a, f.b).v,
                   !.i = @ + 1, !.adds = @ + 1]

\* Some(b)
LoopExitB(f) == [f EXCEPT !.pc = "ret", !.ret = Some(f.b)]

\* the range 0..n is exhausted:  Some(a)
LoopExit(f) == [f EXCEPT !.pc = "ret", !.ret = Some(f.a)]

\* the text of the PyOverflowError, with the place of {n} filled in
OverflowMessage(m) ==
    <<"Overflow occured while computing the ", m, "th fibonacci number">>

Ok(x) == [tag |-> "Ok", v |-> x]

Err(m) == [tag |-> "Err", exc |-> "PyOverflowError", msg |-> OverflowMessage(m)]

\* fibonacci(n).unwrap_or_default(): the failure is swallowed
OkOrElseDefault(r, m) ==
    IF r.tag = "Some" THEN Ok(r.v) ELSE Ok(U128(0))

\* fibonacci(n).ok_or_else(|| PyOverflowError::new_err(format!(..{n}..)))
OkOrElse(r, m) ==
    IF r.tag = "Some" THEN Ok(r.v) ELSE Err(m)

\* implementation(n) hands the outcome of fibonacci(n) to its caller
ImplReturn(f) == [f EXCEPT !.pc = "done", !.pyret = OkOrElse(f.ret, f.n)]

RECURSIVE RunFor(_, _)
\* at most k steps of the call, in their order
RunFor(f, k) ==
    IF k = 0 \/ f.pc # "loop" THEN f
    ELSE IF k = 1 THEN (IF f.i < f.n THEN LoopBody(f) ELSE LoopExit(f))
    ELSE RunFor(RunFor(f, k \div 2), k - (k \div 2))

\* the call run to completion, without interruption: at most n iterations
\* and the return
RunLoop(f) == RunFor(f, f.n + 1)

\* fibonacci(n) as a function of n
Fibonacci(m) == RunLoop(FibEntry(m)).ret

\* implementation(n) as a function of n
Implementation(m) == ImplReturn(RunLoop(FibEntry(m))).pyret

(* ----------------------------- invocations ----------------------------- *)

\* a, b and the loop counter are locals of one static function: every
\* invocation would write the same cells
StoreShared(fs, t, f) == [u \in DOMAIN fs |-> f]

\* a, b and the loop counter are locals of the call: each invocation has
\* its own
StoreLocal(fs, t, f) == [fs EXCEPT ![t] = f]

InitT(T) ==
    /\ frames = [t \in T |-> IdleFrame]
    /\ pk = 0
    /\ pout = <<>>

\* a caller invokes implementation(m), which calls fibonacci(m)
Call(t, N) ==
    /\ frames[t].pc = "idle"
    /\ \E m \in N : frames' = StoreLocal(frames, t, FibEntry(m))
    /\ UNCHANGED <<pk, pout>>

LoopStep(t) ==
    /\ frames[t].pc = "loop"
    /\ frames[t].i < frames[t].n
    /\ frames' = StoreLocal(frames, t, LoopBody(frames[t]))
    /\ UNCHANGED <<pk, pout>>

LoopEnd(t) ==
    /\ frames[t].pc = "loop"
    /\ frames[t].i = frames[t].n
    /\ frames' = StoreLocal(frames, t, LoopExit(frames[t]))
    /\ UNCHANGED <<pk, pout>>

Return(t) ==
    /\ frames[t].pc = "ret"
    /\ frames' = StoreLocal(frames, t, ImplReturn(frames[t]))
    /\ UNCHANGED <<pk, pout>>

\* the caller has taken the result; nothing of the call is left
Finish(t) ==
    /\ frames[t].pc = "done"
    /\ frames' = StoreLocal(frames, t, IdleFrame)
    /\ UNCHANGED <<pk, pout>>

Run(t) == LoopStep(t) \/ LoopEnd(t) \/ Return(t)

Indices == 0..MaxN

Init == InitT({1})

Next ==
    \/ Call(1, Indices)
    \/ LoopStep(1)
    \/ LoopEnd(1)
    \/ Return(1)
    \/ Finish(1)

Spec == Init /\ [][Next]_vars

\* a call, once made, runs to its end
LiveSpec == Spec /\ WF_vars(Run(1))

(* -------------------- two invocations at the same time ----------------- *)

ConcIndices == (0..MaxSmallN) \cup {MaxN}

Threads == {1, 2}

InitConc == InitT(Threads)

NextConc ==
    \E t \in Threads :
        \/ Call(t, ConcIndices)
        \/ LoopStep(t)
        \/ LoopEnd(t)
        \/ Return(t)
        \/ Finish(t)

SpecConc == InitConc /\ [][NextConc]_vars

(* ------------------ fibonacci(k) followed by fibonacci(k+1) ------------ *)

InitPair ==
    /\ frames = [t \in {} |-> IdleFrame]
    /\ pk \in Indices
    /\ pout = <<>>

\* the next of the two calls, run to its end
CallNext ==
    /\ Len(pout) < 2
    /\ pout' = Append(pout, Fibonacci(pk + Len(pout)))
    /\ UNCHANGED <<frames, pk>>

NextPair == CallNext

SpecPair == InitPair /\ [][NextPair]_vars

(* ------------------------------- claims -------------------------------- *)

\* the frames in which fibonacci has returned
Returned(f) == f.pc \in {"ret", "done"}

Succeeded(f) == Returned(f) /\ f.ret.tag = "Some"

Failed(f) == Returned(f) /\ f.ret = None

\* C1: for every index n with 0 <= n <= 186, fibonacci(n) succeeds and
\* returns the exact Fibonacci number F(n); fibonacci(186) is
\* 332825110087067562321196029789634457848.
C1_ExactUpTo186 ==
    \A t \in DOMAIN frames :
        LET f == frames[t] IN
        (Returned(f) /\ f.n <= 186) =>
            /\ Succeeded(f)
            /\ Value(f.ret.v) = F(f.n)
            /\ (f.n = 186 => Value(f.ret.v) = F186)

\* C2: for every index n whose Fibonacci number exceeds 2^128 - 1, which
\* is every n >= 187, fibonacci(n) returns None and never a wrapped,
\* truncated or saturated value.
C2_OverflowReported ==
    \A t \in DOMAIN frames :
        LET f == frames[t] IN
        Returned(f) =>
            /\ (~Fits(f.n) => f.ret = None)
            /\ (f.n >= 187 => ~Fits(f.n) /\ f.ret = None)
            /\ (f.n = 187 => F(f.n) = F187)

C2_Witness ==
    \E t \in DOMAIN frames :
        frames[t].pc = "done" /\ frames[t].n = 187 /\ frames[t].ret = None

\* C3: whenever fibonacci(n) returns Some(v), v is the exact F(n) and
\* 0 <= v <= 2^128 - 1; the only other outcome is None.
C3_SomeIsExact ==
    \A t \in DOMAIN frames :
        LET f == frames[t] IN
        Returned(f) =>
            /\ f.ret.tag \in {"Some", "None"}
            /\ f.ret.tag = "Some" =>
                  /\ IsU128(f.ret.v)
                  /\ Value(f.ret.v) = F(f.n)
                  /\ DecLeq(<<0>>, Value(f.ret.v))
                  /\ DecLeq(Value(f.ret.v), TwoTo128Minus1)

C3_Witness ==
    \E t \in DOMAIN frames :
        /\ Succeeded(frames[t])
        /\ frames[t].n = 185
        /\ Value(frames[t].ret.v) = F(185)

\* C4: the overflow failure is raised only when the n-th Fibonacci number
\* itself does not fit in 128 bits: if fibonacci(n) fails then
\* F(n) > 2^128 - 1.
C4_FailureOnlyWhenTooLarge ==
    \A t \in DOMAIN frames :
        Failed(frames[t]) => DecLess(TwoTo128Minus1, F(frames[t].n))

\* C5: fibonacci(0) = 0 without the loop body ever running,
\* fibonacci(1) = 1, fibonacci(2) = 1 and fibonacci(10) = 55, each a
\* success.
C5_SmallCases ==
    \A t \in DOMAIN frames :
        LET f == frames[t] IN
        Returned(f) =>
            /\ f.n = 0 => f.ret = Some(U128(0)) /\ f.adds = 0
            /\ f.n = 1 => f.ret = Some(U128(1))
            /\ f.n = 2 => f.ret = Some(U128(1))
            /\ f.n = 10 => f.ret = Some(U128(55))

C5_Witness ==
    \E t \in DOMAIN frames :
        /\ frames[t].pc = "done"
        /\ frames[t].n = 10
        /\ frames[t].ret = Some(U128(55))
        /\ frames[t].pyret = Ok(U128(55))

\* C8: implementation(n) returns v exactly when fibonacci(n) = Some(v) and
\* raises the overflow error exactly when fibonacci(n) = None; the error
\* names the index n that was passed in.
C8_OutcomeSurfaced ==
    \A t \in DOMAIN frames :
        LET f == frames[t] IN
        f.pc = "done" =>
            /\ f.pyret.tag \in {"Ok", "Err"}
            /\ f.pyret.tag = "Ok" <=> f.ret.tag = "Some"
            /\ f.pyret.tag = "Ok" => f.pyret.v = f.ret.v
            /\ f.pyret.tag = "Err" <=> f.ret = None
            /\ f.pyret.tag = "Err" =>
                  /\ f.pyret.exc = "PyOverflowError"
                  /\ f.pyret.msg[2] = f.n

C8_Witness ==
    \E t \in DOMAIN frames :
        /\ frames[t].pc = "done"
        /\ frames[t].ret = None
        /\ frames[t].pyret.tag = "Err"
        /\ frames[t].pyret.msg[2] = frames[t].n
        /\ frames[t].n = MaxN

C6_OverflowMonotone ==
    Len(pout) = 2 =>
        /\ pout[1] = None => pout[2] = None
        /\ pout[2].tag = "Some" => pout[1].tag = "Some"

C6_Witness ==
    /\ Len(pout) = 2
    /\ pk >= 188
    /\ pout[1] = None
    /\ pout[2] = None

\* the outcome of every finished invocation is the one fibonacci gives for
\* its n when run alone, and invocations with the same n agree
C7_SameOutcome ==
    \A t \in DOMAIN frames :
        LET f == frames[t] IN
        /\ Returned(f) => f.ret = Fibonacci(f.n)
        /\ f.pc = "done" => f.pyret = Implementation(f.n)
        /\ \A u \in DOMAIN frames :
              (Returned(f) /\ Returned(frames[u]) /\ frames[u].n = f.n)
                  => frames[u].ret = f.ret

\* a step of one invocation leaves the frame of every other one as it was
C7_OwnFrameOnly ==
    \A t, u \in DOMAIN frames :
        t # u => (frames'[t] = frames[t] \/ frames'[u] = frames[u])

\* C7: the outcome of an invocation is a function of n alone: invocations
\* with the same n, in any order, after any earlier calls, or interleaved
\* step by step with another invocation, end with the same outcome, and no
\* invocation changes the local state of another.
C7_Independent == [](C7_SameOutcome) /\ [][C7_OwnFrameOnly]_vars

C7_Witness ==
    /\ frames[1].pc = "done"
    /\ frames[2].pc = "loop"
    /\ frames[2].i = 100
    /\ frames[1].n = frames[2].n
    /\ frames[1].ret = None

\* the counts of a call, and the place where a failing call stops
C9_Counts ==
    \A t \in DOMAIN frames :
        LET f == frames[t] IN
        /\ f.i <= f.n
        /\ f.adds <= f.n
        /\ Succeeded(f) => f.i = f.n /\ f.adds = f.n
        /\ Failed(f) =>
              /\ f.adds = f.i + 1
              /\ Value(f.a) = F(f.i)
              /\ Value(f.b) = F(f.i + 1)
              /\ \A j \in 2..(f.i + 1) : Fits(j)
              /\ ~Fits(f.i + 2)
        /\ Returned(f) => f.ret.tag \in {"Some", "None"}

\* once fibonacci has returned, no addition follows in that call
C9_NoFurtherIteration ==
    \A t \in DOMAIN frames :
        Returned(frames[t]) =>
            \/ frames'[t].pc = "idle"
            \/ /\ frames'[t].adds = frames[t].adds
               /\ frames'[t].i = frames[t].i
               /\ frames'[t].ret = frames[t].ret

\* C9: every call fibonacci(n) terminates after at most n loop iterations;
\* a successful call performs exactly n checked additions, and a failing
\* call stops at the first addition whose true sum exceeds 2^128 - 1, with
\* no further iteration and no partial value.
C9_Terminates ==
    /\ [](C9_Counts)
    /\ [][C9_NoFurtherIteration]_vars
    /\ \A t \in {1} : (frames[t].pc = "loop") ~> (frames[t].pc = "done")

C9_Witness ==
    \E t \in DOMAIN frames :
        LET f == frames[t] IN
        /\ f.pc = "done"
        /\ f.n = MaxN
        /\ f.ret = None
        /\ f.adds = 186
        /\ f.i = 185

====
